---- MODULE Spec2Model ----
(***************************************************************************)
(* Model of main_mcp.py: the hybrid FastAPI + MCP bridge of the RPG game.  *)
(*                                                                         *)
(* Strings that the code inspects character by character (destination     *)
(* names, map rows, request fields tested with "not x") are sequences of   *)
(* one-character strings.  Python dicts that keep insertion order are      *)
(* sequences of [key, value] records.  time.time() is counted in whole     *)
(* seconds.  Fields named in comments as "history" are not program state:  *)
(* they record what an operation saw, for the properties below.            *)
(***************************************************************************)
EXTENDS Integers, Sequences, FiniteSets, TLC

\* ------------------------------------------------------------------ bounds
\* the number of scripts created in a run
MaxScripts == 1

\* the width of the grids that the scanner is applied to
GridCols == 2

\* ------------------------------------------------------- program constants
MaxAge == 30

\* ------------------------------------------------------------ text helpers
UpperAlpha ==
  <<"A","B","C","D","E","F","G","H","I","J","K","L","M",
    "N","O","P","Q","R","S","T","U","V","W","X","Y","Z">>

LowerAlpha ==
  <<"a","b","c","d","e","f","g","h","i","j","k","l","m",
    "n","o","p","q","r","s","t","u","v","w","x","y","z">>

LowerChar(c) ==
  IF \E i \in 1..26 : UpperAlpha[i] = c
  THEN LowerAlpha[CHOOSE i \in 1..26 : UpperAlpha[i] = c]
  ELSE c

\* str.lower()
Lower(s) == [i \in 1..Len(s) |-> LowerChar(s[i])]

casa == <<"c","a","s","a">>
trabalho == <<"t","r","a","b","a","l","h","o">>
mercado == <<"m","e","r","c","a","d","o">>
banco == <<"b","a","n","c","o">>
loja_carros == <<"l","o","j","a","_","c","a","r","r","o","s">>

\* ------------------------------------------------ insertion-ordered dicts
DictHas(d, k) == \E i \in 1..Len(d) : d[i].key = k

DictGet(d, k) == d[CHOOSE i \in 1..Len(d) : d[i].key = k].value

DictKeys(d) == [i \in 1..Len(d) |-> d[i].key]

\* variant: an existing key keeps its value
DictSetOnce(d, k, v) ==
  IF DictHas(d, k) THEN d ELSE Append(d, [key |-> k, value |-> v])

\* d[k] = v: an existing key keeps its place and takes the new value
DictSet(d, k, v) ==
  IF DictHas(d, k)
  THEN [i \in 1..Len(d) |-> IF d[i].key = k THEN [key |-> k, value |-> v] ELSE d[i]]
  ELSE Append(d, [key |-> k, value |-> v])

\* -------------------------------------------------------------- map scanner
map_layout ==
  << <<"#","#","#","#","#","#","#","#","#","#","#","#","#","#","#","#","#","#","#","#">>,
     <<"#","P"," "," "," ","1"," "," "," ","W"," "," "," ","2"," "," "," "," "," ","#">>,
     <<"#"," "," "," "," "," "," "," "," "," "," "," "," "," "," "," "," "," "," ","#">>,
     <<"#"," "," "," "," ","B"," "," "," ","h"," "," "," ","M"," "," "," ","C"," ","#">>,
     <<"#"," "," "," "," "," "," "," "," "," "," "," "," "," "," "," "," "," "," ","#">>,
     <<"#"," ","3"," "," "," ","4"," "," "," "," "," "," "," ","5"," "," "," "," ","#">>,
     <<"#"," "," "," "," "," "," "," "," "," "," "," "," "," "," "," "," "," "," ","#">>,
     <<"#"," "," "," "," "," "," "," "," "," "," "," "," "," "," "," "," "," "," ","#">>,
     <<"#"," ","5"," "," "," "," "," "," "," "," "," "," "," ","6"," "," "," "," ","#">>,
     <<"#","#","#","#","#","#","#","#","#","#","#","#","#","#","#","#","#","#","#","#">> >>

\* variant: the coordinates are stored transposed
ScanTileTransposed(d, tile, x, y) ==
  IF tile = "h" THEN DictSet(d, casa, [x |-> y, y |-> x])
  ELSE IF tile = "W" THEN DictSet(d, trabalho, [x |-> y, y |-> x])
  ELSE IF tile = "M" THEN DictSet(d, mercado, [x |-> y, y |-> x])
  ELSE IF tile = "B" THEN DictSet(d, banco, [x |-> y, y |-> x])
  ELSE IF tile = "C" THEN DictSet(d, loja_carros, [x |-> y, y |-> x])
  ELSE d

\* the if/elif chain applied to one tile; x and y are the 0-based indices
ScanTile(d, tile, x, y) ==
  IF tile = "h" THEN DictSet(d, casa, [x |-> x, y |-> y])
  ELSE IF tile = "W" THEN DictSet(d, trabalho, [x |-> x, y |-> y])
  ELSE IF tile = "M" THEN DictSet(d, mercado, [x |-> x, y |-> y])
  ELSE IF tile = "B" THEN DictSet(d, banco, [x |-> x, y |-> y])
  ELSE IF tile = "C" THEN DictSet(d, loja_carros, [x |-> x, y |-> y])
  ELSE d

\* for x, tile in enumerate(row): acc[x] is the dict after the first x tiles
ScanRow(d, row, y) ==
  LET acc[x \in 0..Len(row)] ==
        IF x = 0 THEN d ELSE ScanTile(acc[x - 1], row[x], x - 1, y)
  IN  acc[Len(row)]

RECURSIVE ScanRows(_, _, _)
\* for y, row in enumerate(layout), from row index y on.  The row's result nd
\* is compared with d so that it is a computed value before the next row.
ScanRows(d, layout, y) ==
  IF y >= Len(layout) THEN d
  ELSE LET nd == ScanRow(d, layout[y + 1], y)
       IN  IF nd = d THEN ScanRows(d, layout, y + 1) ELSE ScanRows(nd, layout, y + 1)

detect_map_coordinates(layout) == ScanRows(<<>>, layout, 0)

destinations == detect_map_coordinates(map_layout)

\* --------------------------------------------------- upstream generation
\* os.getenv("GEMINI_API_KEY"): unset (None), set to "", or set to a key
ApiKeys ==
  { [set |-> FALSE, val |-> ""], [set |-> TRUE, val |-> ""], [set |-> TRUE, val |-> "k"] }

ContentsInputs == {"valid", "malformed"}

UpstreamStatuses == {200, 404, 429, 500, 503}

\* what the body of the upstream answer holds
Bodies == {"good", "no_candidates", "bad_shape", "not_json", "not_json_simplejson"}

Upstreams ==
  { [kind |-> "timeout", status |-> 0, body |-> ""],
    [kind |-> "transport", status |-> 0, body |-> ""] }
  \cup { [kind |-> "http", status |-> st, body |-> b] : st \in UpstreamStatuses, b \in Bodies }

ErrorPayload(text, code) ==
  [error |-> [text |-> text, status |-> 0, body |-> ""], status_code |-> code]

\* not api_key
NoCredential(key) == ~key.set \/ key.val = ""

\* response.ok of requests: false exactly for 400..599
ResponseOk(st) == ~(st >= 400 /\ st <= 599)

\* variant: every non-success answer is reported with status_code 500
UpstreamErrorPayload500(up) ==
  [error |-> [text |-> "Erro na API Gemini", status |-> up.status, body |-> up.body],
   status_code |-> 500]

\* the payload returned for an upstream answer with a non-success status
UpstreamErrorPayload(up) ==
  [error |-> [text |-> "Erro na API Gemini", status |-> up.status, body |-> up.body],
   status_code |-> up.status]

\* the part of generate_gemini_content after requests.post: up is the outcome
\* of the call
UpstreamPayload(up) ==
  IF up.kind = "timeout" THEN ErrorPayload("Timeout na chamada da API Gemini", 408)
  ELSE IF up.kind = "transport" THEN ErrorPayload("Erro de conexao com a API Gemini", 500)
  ELSE IF ~ResponseOk(up.status) THEN UpstreamErrorPayload(up)
  \* response.json() raises requests' JSONDecodeError: a json.JSONDecodeError,
  \* or with simplejson installed only a RequestException
  ELSE IF up.body = "not_json" THEN ErrorPayload("JSON invalido fornecido", 400)
  ELSE IF up.body = "not_json_simplejson"
       THEN ErrorPayload("Erro de conexao com a API Gemini", 500)
  ELSE IF up.body = "no_candidates" THEN ErrorPayload("Resposta invalida da API Gemini", 500)
  \* candidates[0] without content/parts/text: KeyError, caught by except Exception
  ELSE IF up.body = "bad_shape" THEN ErrorPayload("Erro interno", 500)
  ELSE [response |-> "first_text"]

\* variant: the input is parsed before the credential is looked at
generate_parsing_first(key, contents_json, up) ==
  IF contents_json = "malformed"
  THEN [payload |-> ErrorPayload("JSON invalido fornecido", 400), called |-> FALSE]
  ELSE IF NoCredential(key)
  THEN [payload |-> ErrorPayload("GEMINI_API_KEY nao configurada no arquivo .env", 500),
        called |-> FALSE]
  ELSE [payload |-> UpstreamPayload(up), called |-> TRUE]

\* called: whether requests.post was reached (history)
generate_gemini_content(key, contents_json, up) ==
  IF NoCredential(key)
  THEN [payload |-> ErrorPayload("GEMINI_API_KEY nao configurada no arquivo .env", 500),
        called |-> FALSE]
  ELSE IF contents_json = "malformed"
  THEN [payload |-> ErrorPayload("JSON invalido fornecido", 400), called |-> FALSE]
  ELSE [payload |-> UpstreamPayload(up), called |-> TRUE]

\* ------------------------------------------------------- movement, thought
\* the script posted to /api/execute-js; arg is the text put into it
MoveScript(destination_lower) == [kind |-> "move", arg |-> destination_lower]

ThoughtScript(texto) == [kind |-> "thought", arg |-> texto]

\* variant: the notification task is created before the destination is looked up
move_player_notifying(destination) ==
  LET destination_lower == Lower(destination) IN
  IF ~DictHas(destinations, destination_lower)
  THEN [result |-> [success |-> FALSE,
                    message |-> [text |-> "Destino nao encontrado. Destinos disponiveis",
                                 name |-> destination,
                                 keys |-> DictKeys(destinations)]],
        notify |-> <<MoveScript(destination_lower)>>]
  ELSE LET target_position == DictGet(destinations, destination_lower) IN
       [result |-> [success |-> TRUE,
                    message |-> [text |-> "Executando movimento para",
                                 name |-> destination_lower,
                                 keys |-> <<>>],
                    new_position |-> target_position,
                    frontend_triggered |-> TRUE,
                    player_status |-> [destination |-> destination_lower,
                                       target_coordinates |-> target_position,
                                       movement_type |-> "pathfinding",
                                       status |-> "moving"]],
        notify |-> <<MoveScript(destination_lower)>>]

\* variant: the script names the destination as it was spelled by the caller
move_player_as_spelled(destination) ==
  LET destination_lower == Lower(destination) IN
  IF ~DictHas(destinations, destination_lower)
  THEN [result |-> [success |-> FALSE,
                    message |-> [text |-> "Destino nao encontrado. Destinos disponiveis",
                                 name |-> destination,
                                 keys |-> DictKeys(destinations)]],
        notify |-> <<>>]
  ELSE LET target_position == DictGet(destinations, destination_lower) IN
       [result |-> [success |-> TRUE,
                    message |-> [text |-> "Executando movimento para",
                                 name |-> destination_lower,
                                 keys |-> <<>>],
                    new_position |-> target_position,
                    frontend_triggered |-> TRUE,
                    player_status |-> [destination |-> destination_lower,
                                       target_coordinates |-> target_position,
                                       movement_type |-> "pathfinding",
                                       status |-> "moving"]],
        notify |-> <<MoveScript(destination)>>]

\* notify: the scripts for which a notification task is created
move_player(destination) ==
  LET destination_lower == Lower(destination) IN
  IF ~DictHas(destinations, destination_lower)
  THEN [result |-> [success |-> FALSE,
                    message |-> [text |-> "Destino nao encontrado. Destinos disponiveis",
                                 name |-> destination,
                                 keys |-> DictKeys(destinations)]],
        notify |-> <<>>]
  ELSE LET target_position == DictGet(destinations, destination_lower) IN
       [result |-> [success |-> TRUE,
                    message |-> [text |-> "Executando movimento para",
                                 name |-> destination_lower,
                                 keys |-> <<>>],
                    new_position |-> target_position,
                    frontend_triggered |-> TRUE,
                    player_status |-> [destination |-> destination_lower,
                                       target_coordinates |-> target_position,
                                       movement_type |-> "pathfinding",
                                       status |-> "moving"]],
        notify |-> <<MoveScript(destination_lower)>>]

pensamento(texto) ==
  [result |-> [success |-> TRUE,
               message |-> [text |-> "Pensamento exibido com sucesso", name |-> texto,
                            keys |-> <<>>],
               texto |-> texto],
   notify |-> <<ThoughtScript(texto)>>]

\* ------------------------------------------------------------------ inputs
Names ==
  { casa, <<"C","a","S","A">>, <<"h","o","s","p","i","t","a","l">>, <<>> }

\* str.upper() of a lower-case letter
UpperChar(c) ==
  IF \E i \in 1..26 : LowerAlpha[i] = c
  THEN UpperAlpha[CHOOSE i \in 1..26 : LowerAlpha[i] = c]
  ELSE c

RECURSIVE SpellingsOf(_)
\* every upper/lower-case spelling of a lower-case name
SpellingsOf(name) ==
  IF name = <<>> THEN { <<>> }
  ELSE { <<c>> \o t : c \in {Head(name), UpperChar(Head(name))},
                      t \in SpellingsOf(Tail(name)) }

\* the destinations given to move_player when its spelling is studied: every
\* spelling of casa and banco, and the other names in capitals
MoveSpellings ==
  SpellingsOf(casa) \cup SpellingsOf(banco)
    \cup { [i \in 1..Len(n) |-> UpperChar(n[i])] : n \in {trabalho, mercado, loja_carros} }

Texts == { <<"o","i">> }

ExternalScripts == { <<"f","(",")">>, <<>> }

\* a request body without any of the fields the handlers read
NoFields == [other |-> <<>>]

DefaultStatus ==
  [stamina |-> 100, dinheiro_bolso |-> 0, dinheiro_banco |-> 0,
   coordenadas |-> [x |-> 1, y |-> 1], localizacao_atual |-> "casa", carros |-> 0]

StatusPayloads ==
  { [stamina |-> 40, dinheiro_bolso |-> 7, dinheiro_banco |-> 0,
     coordenadas |-> [x |-> 9, y |-> 3], localizacao_atual |-> "banco", carros |-> 1],
    [stamina |-> 55] }

\* v = request.get(k); not v
Missing(request, k) == k \notin DOMAIN request \/ request[k] = <<>>

Origins == {"tool", "http", "client"}

SleepEndpoints == {"request-status", "live-status"}

\* the tiles of the grids that are scanned: the five markers and a floor tile
GridTiles == {"h", "W", "M", "B", "C", " "}

\* grids of two rows of GridCols tiles
Grids == { << r1, r2 >> : r1 \in [1..GridCols -> GridTiles],
                          r2 \in [1..GridCols -> GridTiles] }

\* the readings of time.time() that a run passes through, in seconds
ClockReadings == {0, 30, 31}

\* ------------------------------------------------------------------- state
VARIABLES
  server,              \* uvicorn thread: "starting", "up", or "foreign" (port 8080 held by another process)
  api_key,             \* GEMINI_API_KEY of the environment
  grid,                \* rows given to the scan in place of map_layout; <<>> when it scans map_layout
  now,                 \* time.time()
  js_command_queue,    \* polled queue: entries [id, script, timestamp]; id is history
  js_commands,         \* second queue: entries [id, form, script, timestamp]
  last_player_status,  \* status cache
  query,               \* get_player_status per caller: "idle" or "waiting" in requests.get
  live,                \* get_player_status_live per requester: [stage, id]
  sleeping,            \* request-status / live-status handlers inside asyncio.sleep
  pending,             \* notification tasks created and not yet run: [id, script, loop]
  issued,              \* number of scripts created so far (history, bounds the run)
  outcome,             \* history: kind of each script and what became of it
  delivered,           \* history: how many polls returned each script
  sinceDrain,          \* history: 1 if js_command_queue got an entry since the last poll, else 0; -1 before the first poll
  lastUpdate,          \* history: payload of the last update-status that carried one
  response             \* the result of the last completed operation

vars ==
  << server, api_key, grid, now, js_command_queue, js_commands, last_player_status,
     query, live, sleeping, pending, issued, outcome, delivered, sinceDrain,
     lastUpdate, response >>

Ids == 1..MaxScripts

Init ==
  /\ server = "starting"
  /\ api_key \in ApiKeys
  /\ grid \in {<<>>} \cup Grids
  /\ now = 0
  /\ js_command_queue = <<>>
  /\ js_commands = <<>>
  /\ last_player_status = DefaultStatus
  /\ query = [o \in {"tool", "http"} |-> "idle"]
  /\ live = [o \in Origins |-> [stage |-> "none", id |-> 0]]
  /\ sleeping = {}
  /\ pending = {}
  /\ issued = 0
  /\ outcome = [i \in Ids |-> [kind |-> "none", fate |-> "none"]]
  /\ delivered = [i \in Ids |-> 0]
  /\ sinceDrain = -1
  /\ lastUpdate = DefaultStatus
  /\ response = [op |-> "none"]

\* the uvicorn event loop runs handlers: the server is up and the loop is not
\* inside the requests.get of get_player_status_endpoint
HttpFree == server = "up" /\ query["http"] = "idle"

\* the MCP event loop is not inside the requests.get of the get_player_status tool
McpFree == query["tool"] = "idle"

LoopFree(loop) == IF loop = "http" THEN HttpFree ELSE McpFree

CanIssue == issued < MaxScripts

\* sinceDrain after one more enqueue
Bump(n) == IF n < 0 THEN n ELSE 1

\* history of script id
Logged(id, kind, fate) == [outcome EXCEPT ![id] = [kind |-> kind, fate |-> fate]]

Fated(id, fate) == [outcome EXCEPT ![id].fate = fate]

\* js_command_queue.append({"script": ..., "timestamp": time.time()})
Enqueue(q, id, script, t) == Append(q, [id |-> id, script |-> script, timestamp |-> t])

\* -------------------------------------------------------------- environment
\* uvicorn.run binds 127.0.0.1:8080 and serves
ServerStart ==
  /\ server = "starting"
  /\ server' = "up"
  /\ UNCHANGED << api_key, grid, now, js_command_queue, js_commands, last_player_status,
                  query, live, sleeping, pending, issued, outcome, delivered, sinceDrain,
                  lastUpdate, response >>

\* uvicorn.run cannot bind: the port belongs to another process and the daemon
\* thread ends, the MCP server goes on
ServerBindFail ==
  /\ server = "starting"
  /\ server' = "foreign"
  /\ UNCHANGED << api_key, grid, now, js_command_queue, js_commands, last_player_status,
                  query, live, sleeping, pending, issued, outcome, delivered, sinceDrain,
                  lastUpdate, response >>

\* time passes
Tick(t) ==
  /\ t > now
  /\ now' = t
  /\ UNCHANGED << server, api_key, grid, js_command_queue, js_commands, last_player_status,
                  query, live, sleeping, pending, issued, outcome, delivered, sinceDrain,
                  lastUpdate, response >>

\* ------------------------------------------------ notifications (fire and forget)
\* loop.create_task(trigger_...()) for each script of notify, on the loop of
\* the caller.  Tools and endpoints are called on a running loop, so
\* asyncio.get_event_loop() succeeds and the task is only created here.
Schedule(notify, loop) ==
  IF notify = <<>>
  THEN UNCHANGED << pending, issued, outcome >>
  ELSE /\ CanIssue
       /\ issued' = issued + 1
       /\ pending' = pending \cup {[id |-> issued + 1, script |-> notify[1], loop |-> loop]}
       /\ outcome' = Logged(issued + 1, notify[1].kind, "pending")

NoteId(notify) == IF notify = <<>> THEN 0 ELSE issued + 1

\* variant: the notification is awaited and its failure reaches the caller
SurfacedResult(result, srv) ==
  IF srv = "up" THEN result
  ELSE [success |-> FALSE,
        message |-> [text |-> "Erro ao notificar", name |-> <<>>, keys |-> <<>>]]

\* try: ... except: pass around the notification: the result built by the
\* caller is returned whatever the state of the presentation surface (srv)
ReturnedResult(result, srv) == result

\* the task runs: session.post reaches execute_js_endpoint, which appends the
\* script (never empty) to the polled queue
NotifyDeliver(n) ==
  /\ n \in pending
  /\ LoopFree(n.loop)
  /\ HttpFree
  /\ pending' = pending \ {n}
  /\ js_command_queue' = Enqueue(js_command_queue, n.id, n.script, now)
  /\ outcome' = Fated(n.id, "queued")
  /\ sinceDrain' = Bump(sinceDrain)
  /\ UNCHANGED << server, api_key, grid, now, js_commands, last_player_status, query,
                  live, sleeping, issued, delivered, lastUpdate, response >>

\* variant: a failed attempt leaves the task in place and it is tried again
NotifyFailRetry(n) ==
  /\ n \in pending
  /\ LoopFree(n.loop)
  /\ ~HttpFree
  /\ outcome' = Fated(n.id, "failed")
  /\ UNCHANGED << server, api_key, grid, now, js_command_queue, js_commands,
                  last_player_status, query, live, sleeping, pending, issued, delivered,
                  sinceDrain, lastUpdate, response >>

\* the task runs and the script does not reach this program's queue: nobody
\* listens, the port is foreign, or the server's loop is blocked until the
\* client gives up; an exception of session.post ends in except: pass
NotifyFail(n) ==
  /\ n \in pending
  /\ LoopFree(n.loop)
  /\ ~HttpFree
  /\ pending' = pending \ {n}
  /\ outcome' = Fated(n.id, "failed")
  /\ UNCHANGED << server, api_key, grid, now, js_command_queue, js_commands,
                  last_player_status, query, live, sleeping, issued, delivered,
                  sinceDrain, lastUpdate, response >>

\* ---------------------------------------------------------------- movement
MovePlayerTool(destination) ==
  /\ McpFree
  /\ LET r == move_player(destination) IN
       /\ Schedule(r.notify, "mcp")
       /\ response' = [op |-> "move_player", code |-> 200,
                       arg |-> destination, body |-> ReturnedResult(r.result, server),
                       note |-> NoteId(r.notify)]
  /\ UNCHANGED << server, api_key, grid, now, js_command_queue, js_commands,
                  last_player_status, query, live, sleeping, delivered, sinceDrain,
                  lastUpdate >>

\* POST /api/player/move
MovePlayerEndpoint(request) ==
  /\ HttpFree
  /\ IF Missing(request, "destination")
     THEN /\ response' = [op |-> "move_player", code |-> 400,
                          detail |-> "Destination is required"]
          /\ UNCHANGED << pending, issued, outcome >>
     ELSE LET r == move_player(request.destination) IN
            /\ Schedule(r.notify, "http")
            /\ response' = [op |-> "move_player", code |-> 200,
                            arg |-> request.destination,
                            body |-> ReturnedResult(r.result, server),
                            note |-> NoteId(r.notify)]
  /\ UNCHANGED << server, api_key, grid, now, js_command_queue, js_commands,
                  last_player_status, query, live, sleeping, delivered, sinceDrain,
                  lastUpdate >>

\* ----------------------------------------------------------------- thought
PensamentoTool(texto) ==
  /\ McpFree
  /\ LET r == pensamento(texto) IN
       /\ Schedule(r.notify, "mcp")
       /\ response' = [op |-> "pensamento", code |-> 200,
                       arg |-> texto, body |-> ReturnedResult(r.result, server),
                       note |-> NoteId(r.notify)]
  /\ UNCHANGED << server, api_key, grid, now, js_command_queue, js_commands,
                  last_player_status, query, live, sleeping, delivered, sinceDrain,
                  lastUpdate >>

\* POST /api/player/pensamento
PensamentoEndpoint(request) ==
  /\ HttpFree
  /\ IF Missing(request, "texto")
     THEN /\ response' = [op |-> "pensamento", code |-> 400,
                          detail |-> "Texto is required"]
          /\ UNCHANGED << pending, issued, outcome >>
     ELSE LET r == pensamento(request.texto) IN
            /\ Schedule(r.notify, "http")
            /\ response' = [op |-> "pensamento", code |-> 200,
                            arg |-> request.texto,
                            body |-> ReturnedResult(r.result, server),
                            note |-> NoteId(r.notify)]
  /\ UNCHANGED << server, api_key, grid, now, js_command_queue, js_commands,
                  last_player_status, query, live, sleeping, delivered, sinceDrain,
                  lastUpdate >>

\* ------------------------------------------------------------ status query
LiveScript == [kind |-> "live", arg |-> <<>>]

\* how requests.get can end without a 200 of this program's own handler:
\* nobody listens yet, or the process that holds the port answers something
\* else or drops the connection.  No timeout is passed to requests.get, so no
\* Timeout is ever raised.
FetchFailures(srv) ==
  IF srv = "starting" THEN {"ConnectionError"}
  ELSE IF srv = "foreign" THEN {"non200", "ConnectionError"}
  ELSE {}

\* variant: neither branch attaches the error
StatusFallbackSilent(failure, cache) == [player_status |-> cache]

\* the two fallback branches of get_player_status
StatusFallback(failure, cache) ==
  IF failure = "non200"
  THEN [player_status |-> cache]
  ELSE [player_status |-> cache, error |-> failure]

\* get_player_status reaches requests.get (no timeout argument) and waits.
\* o = "tool": called on the MCP loop; o = "http": called by
\* get_player_status_endpoint on the uvicorn loop, which it occupies.
GetPlayerStatusStart(o) ==
  /\ o \in {"tool", "http"}
  /\ IF o = "tool" THEN McpFree ELSE HttpFree
  /\ CanIssue
  /\ issued' = issued + 1
  /\ query' = [query EXCEPT ![o] = "waiting"]
  /\ live' = [live EXCEPT ![o] = [stage |-> "sent", id |-> issued + 1]]
  /\ UNCHANGED << server, api_key, grid, now, js_command_queue, js_commands,
                  last_player_status, sleeping, pending, outcome, delivered,
                  sinceDrain, lastUpdate, response >>

\* GET /api/get-player-status-live up to its await asyncio.sleep(1.5); for
\* o = "client" the request comes from outside
LiveBegin(o) ==
  /\ HttpFree
  /\ IF o = "client"
     THEN /\ live[o].stage = "none"
          /\ CanIssue
          /\ issued' = issued + 1
     ELSE /\ live[o].stage = "sent"
          /\ UNCHANGED issued
  /\ LET id == IF o = "client" THEN issued + 1 ELSE live[o].id IN
       /\ js_command_queue' = Enqueue(js_command_queue, id, LiveScript, now)
       /\ outcome' = Logged(id, "live", "queued")
       /\ live' = [live EXCEPT ![o] = [stage |-> "sleeping", id |-> id]]
  /\ sinceDrain' = Bump(sinceDrain)
  /\ UNCHANGED << server, api_key, grid, now, js_commands, last_player_status, query,
                  sleeping, pending, delivered, lastUpdate, response >>

\* the handler resumes after the sleep and answers 200; for "tool" and "http"
\* requests.get returns and get_player_status returns response.text
LiveEnd(o) ==
  /\ HttpFree
  /\ live[o].stage = "sleeping"
  /\ live' = [live EXCEPT ![o] = [stage |-> "none", id |-> 0]]
  /\ LET text == [status |-> "success", message |-> "Status capturado em tempo real",
                  player_status |-> last_player_status, timestamp |-> now] IN
       IF o = "client"
       THEN /\ response' = [op |-> "get-player-status-live", surface |-> "http",
                            code |-> 200, body |-> text]
            /\ UNCHANGED query
       ELSE /\ response' = [op |-> "get_player_status", surface |-> o, code |-> 200,
                            fetch |-> "200", cache |-> last_player_status,
                            body |-> text]
            /\ query' = [query EXCEPT ![o] = "idle"]
  /\ UNCHANGED << server, api_key, grid, now, js_command_queue, js_commands,
                  last_player_status, sleeping, pending, issued, outcome, delivered,
                  sinceDrain, lastUpdate >>

\* requests.get ends with a non-200 answer or raises: the fallback is
\* returned; cache is history, the status cache at that moment
StatusQueryFail(o, failure) ==
  /\ o \in {"tool", "http"}
  /\ query[o] = "waiting"
  /\ live[o].stage = "sent"
  /\ failure \in FetchFailures(server)
  /\ query' = [query EXCEPT ![o] = "idle"]
  /\ live' = [live EXCEPT ![o] = [stage |-> "none", id |-> 0]]
  /\ response' = [op |-> "get_player_status", surface |-> o, code |-> 200,
                  fetch |-> failure, cache |-> last_player_status,
                  body |-> StatusFallback(failure, last_player_status)]
  /\ UNCHANGED << server, api_key, grid, now, js_command_queue, js_commands,
                  last_player_status, sleeping, pending, issued, outcome, delivered,
                  sinceDrain, lastUpdate >>

\* ------------------------------------------------------------ status cache
\* variant: the payload is merged into the cached record, field by field
MergedStatus(old, request) ==
  IF "player_status" \in DOMAIN request
  THEN [k \in DOMAIN old \cup DOMAIN request.player_status |->
          IF k \in DOMAIN request.player_status THEN request.player_status[k] ELSE old[k]]
  ELSE old

\* if "player_status" in request: last_player_status = request["player_status"]
NewStatus(old, request) ==
  IF "player_status" \in DOMAIN request THEN request.player_status ELSE old

\* POST /api/player/update-status
UpdateStatus(request) ==
  /\ HttpFree
  /\ last_player_status' = NewStatus(last_player_status, request)
  /\ lastUpdate' = IF "player_status" \in DOMAIN request
                   THEN request.player_status ELSE lastUpdate
  /\ response' = [op |-> "update-status", surface |-> "http", code |-> 200,
                  body |-> [success |-> TRUE, message |-> "Status atualizado"]]
  /\ UNCHANGED << server, api_key, grid, now, js_command_queue, js_commands, query,
                  live, sleeping, pending, issued, outcome, delivered, sinceDrain >>

\* GET /api/player/current-status
CurrentStatus ==
  /\ HttpFree
  /\ response' = [op |-> "current-status", surface |-> "http", code |-> 200,
                  body |-> [player_status |-> last_player_status]]
  /\ UNCHANGED << server, api_key, grid, now, js_command_queue, js_commands,
                  last_player_status, query, live, sleeping, pending, issued, outcome,
                  delivered, sinceDrain, lastUpdate >>

\* ------------------------------------------------------------ polled queue
RawScript(text) == [kind |-> "raw", arg |-> text]

\* POST /api/execute-js
ExecuteJs(request) ==
  /\ HttpFree
  /\ IF Missing(request, "script")
     THEN /\ response' = [op |-> "execute-js", surface |-> "http", code |-> 400,
                          detail |-> "script is required"]
          /\ UNCHANGED << js_command_queue, issued, outcome, sinceDrain >>
     ELSE /\ CanIssue
          /\ issued' = issued + 1
          /\ js_command_queue' =
               Enqueue(js_command_queue, issued + 1, RawScript(request.script), now)
          /\ outcome' = Logged(issued + 1, "raw", "queued")
          /\ sinceDrain' = Bump(sinceDrain)
          /\ response' = [op |-> "execute-js", surface |-> "http", code |-> 200,
                          body |-> [success |-> TRUE,
                                    message |-> "Script adicionado a fila de execucao"]]
  /\ UNCHANGED << server, api_key, grid, now, js_commands, last_player_status, query,
                  live, sleeping, pending, delivered, lastUpdate >>

\* [cmd for cmd in js_command_queue if current_time - cmd["timestamp"] < 30]
FreshCommands(q, current_time) ==
  SelectSeq(q, LAMBDA cmd : current_time - cmd.timestamp < MaxAge)

\* variant: the snapshot is returned and the queue is left as it is
KeptQueue(q) == q

\* js_command_queue.clear()
ClearedQueue(q) == <<>>

SeqIds(q) == { q[i].id : i \in 1..Len(q) }

\* GET /api/js-commands.  at, evicted, parked and enqueued are history: the
\* time of the poll, the entries the filter removed, the second queue at the
\* time of the poll and sinceDrain at the time of the poll.
GetJsCommands ==
  /\ HttpFree
  /\ LET current_time == now
         kept == FreshCommands(js_command_queue, current_time)
         commands == kept
     IN /\ js_command_queue' = ClearedQueue(kept)
        /\ delivered' = [i \in Ids |->
                           IF i \in SeqIds(commands) THEN delivered[i] + 1 ELSE delivered[i]]
        /\ outcome' = [i \in Ids |->
                         IF i \in SeqIds(commands)
                         THEN [kind |-> outcome[i].kind, fate |-> "polled"]
                         ELSE IF i \in SeqIds(js_command_queue)
                         THEN [kind |-> outcome[i].kind, fate |-> "evicted"]
                         ELSE outcome[i]]
        /\ response' = [op |-> "js-commands", surface |-> "http", code |-> 200,
                        body |-> [commands |-> commands],
                        at |-> current_time,
                        evicted |-> SelectSeq(js_command_queue,
                                       LAMBDA cmd : cmd.id \notin SeqIds(kept)),
                        parked |-> js_commands,
                        enqueued |-> sinceDrain]
  /\ sinceDrain' = 0
  /\ UNCHANGED << server, api_key, grid, now, js_commands, last_player_status, query,
                  live, sleeping, pending, issued, lastUpdate >>

\* ------------------------------------------------------------ second queue
\* js_commands.append(...): real-status and test-js append a dict with id,
\* script and timestamp, request-status and live-status the bare script
\* string.  id and, for the bare strings, timestamp are history.
Park(q, id, form, name, t) ==
  Append(q, [id |-> id, form |-> form, script |-> [kind |-> name, arg |-> <<>>],
             timestamp |-> t])

\* GET /api/player/real-status
RealStatus ==
  /\ HttpFree
  /\ CanIssue
  /\ issued' = issued + 1
  /\ js_commands' = Park(js_commands, issued + 1, "dict", "real-status", now)
  /\ outcome' = Logged(issued + 1, "real-status", "parked")
  /\ response' = [op |-> "real-status", surface |-> "http", code |-> 200,
                  body |-> [player_status |-> DefaultStatus,
                            nota |-> "Solicitando status real via JavaScript..."]]
  /\ UNCHANGED << server, api_key, grid, now, js_command_queue, last_player_status,
                  query, live, sleeping, pending, delivered, sinceDrain, lastUpdate >>

\* GET /api/test-js
TestJs ==
  /\ HttpFree
  /\ CanIssue
  /\ issued' = issued + 1
  /\ js_commands' = Park(js_commands, issued + 1, "dict", "test-js", now)
  /\ outcome' = Logged(issued + 1, "test-js", "parked")
  /\ response' = [op |-> "test-js", surface |-> "http", code |-> 200,
                  body |-> [message |-> "Comando de teste JavaScript adicionado a fila"]]
  /\ UNCHANGED << server, api_key, grid, now, js_command_queue, last_player_status,
                  query, live, sleeping, pending, delivered, sinceDrain, lastUpdate >>

\* GET /api/player/request-status and /live-status up to their asyncio.sleep
SleepBegin(e) ==
  /\ HttpFree
  /\ e \notin sleeping
  /\ CanIssue
  /\ issued' = issued + 1
  /\ js_commands' = Park(js_commands, issued + 1, "str", e, now)
  /\ outcome' = Logged(issued + 1, e, "parked")
  /\ sleeping' = sleeping \cup {e}
  /\ UNCHANGED << server, api_key, grid, now, js_command_queue, last_player_status,
                  query, live, pending, delivered, sinceDrain, lastUpdate, response >>

\* ... and from the sleep to the answer, which carries the cache
SleepEnd(e) ==
  /\ HttpFree
  /\ e \in sleeping
  /\ sleeping' = sleeping \ {e}
  /\ response' = [op |-> e, surface |-> "http", code |-> 200,
                  body |-> [status |-> "success", player_status |-> last_player_status]]
  /\ UNCHANGED << server, api_key, grid, now, js_command_queue, js_commands,
                  last_player_status, query, live, pending, issued, outcome, delivered,
                  sinceDrain, lastUpdate >>

\* ------------------------------------------------------- upstream client
GenerateGeminiContent(contents_json, up) ==
  /\ McpFree
  /\ LET r == generate_gemini_content(api_key, contents_json, up) IN
       response' = [op |-> "generate_gemini_content", surface |-> "tool", code |-> 200,
                    arg |-> contents_json, upstream |-> up, called |-> r.called,
                    body |-> r.payload]
  /\ UNCHANGED << server, api_key, grid, now, js_command_queue, js_commands,
                  last_player_status, query, live, sleeping, pending, issued, outcome,
                  delivered, sinceDrain, lastUpdate >>

\* ------------------------------------------------------------ map scanner
\* the rows that the scan loops over
ScannedLayout == IF grid = <<>> THEN map_layout ELSE grid

\* get_destinations, as a tool (McpFree) or through GET /api/destinations
GetDestinations(surface) ==
  /\ IF surface = "tool" THEN McpFree ELSE HttpFree
  /\ response' = [op |-> "get_destinations", surface |-> surface, code |-> 200,
                  body |-> [destinations |-> detect_map_coordinates(ScannedLayout),
                            message |-> "Coordenadas detectadas automaticamente do mapa"]]
  /\ UNCHANGED << server, api_key, grid, now, js_command_queue, js_commands,
                  last_player_status, query, live, sleeping, pending, issued, outcome,
                  delivered, sinceDrain, lastUpdate >>

\* the request bodies sent to POST /api/gemini/generate: a contents list, an
\* empty one, or none
ContentsRequests == { [contents |-> <<"parts">>], [contents |-> <<>>], NoFields }

\* json.dumps(contents): the text of a parsed value is always valid JSON
JsonDumps(contents) == "valid"

\* POST /api/gemini/generate
GeminiEndpoint(request, up) ==
  /\ HttpFree
  /\ IF Missing(request, "contents")
     THEN response' = [op |-> "gemini-generate", surface |-> "http", code |-> 400,
                       detail |-> "Contents are required"]
     ELSE LET r == generate_gemini_content(api_key, JsonDumps(request.contents), up) IN
            response' = [op |-> "gemini-generate", surface |-> "http", code |-> 200,
                         arg |-> JsonDumps(request.contents), upstream |-> up,
                         called |-> r.called, body |-> r.payload]
  /\ UNCHANGED << server, api_key, grid, now, js_command_queue, js_commands,
                  last_player_status, query, live, sleeping, pending, issued, outcome,
                  delivered, sinceDrain, lastUpdate >>

\* the get_config tool
GetConfig ==
  /\ McpFree
  /\ response' = [op |-> "get_config", surface |-> "tool", code |-> 200,
                  body |-> [gemini_api_available |-> ~NoCredential(api_key),
                            message |-> "API Gemini configurada via backend"]]
  /\ UNCHANGED << server, api_key, grid, now, js_command_queue, js_commands,
                  last_player_status, query, live, sleeping, pending, issued, outcome,
                  delivered, sinceDrain, lastUpdate >>

\* ---------------------------------------------------------- specifications
Notify == \E n \in pending : NotifyDeliver(n) \/ NotifyFail(n)

\* steps of operations that have already started
Handlers ==
  \/ \E o \in {"tool", "http"} : LiveBegin(o)
  \/ \E o \in Origins : LiveEnd(o)
  \/ \E o \in {"tool", "http"}, f \in {"non200", "ConnectionError"} :
       StatusQueryFail(o, f)
  \/ \E e \in SleepEndpoints : SleepEnd(e)

\* calls from outside: MCP tool calls and HTTP requests
Requests ==
  \/ \E d \in Names : MovePlayerTool(d)
  \/ \E d \in Names : MovePlayerEndpoint([destination |-> d])
  \/ MovePlayerEndpoint(NoFields)
  \/ \E t \in Texts : PensamentoTool(t)
  \/ \E t \in Texts : PensamentoEndpoint([texto |-> t])
  \/ PensamentoEndpoint(NoFields)
  \/ \E o \in {"tool", "http"} : GetPlayerStatusStart(o)
  \/ LiveBegin("client")
  \/ \E p \in StatusPayloads : UpdateStatus([player_status |-> p])
  \/ UpdateStatus(NoFields)
  \/ CurrentStatus
  \/ \E sc \in ExternalScripts : ExecuteJs([script |-> sc])
  \/ ExecuteJs(NoFields)
  \/ GetJsCommands
  \/ RealStatus
  \/ TestJs
  \/ \E e \in SleepEndpoints : SleepBegin(e)

Next ==
  \/ ServerStart
  \/ ServerBindFail
  \/ \E t \in ClockReadings : Tick(t)
  \/ Requests
  \/ Handlers
  \/ Notify

\* the program as it runs: the scanner is given map_layout
InitProgram == Init /\ grid = <<>>

\* no action of Next reads the credential
InitConfigured == InitProgram /\ api_key = [set |-> TRUE, val |-> "k"]

Spec == InitConfigured /\ [][Next]_vars

\* a handler that has started goes on, a scheduled task runs, the server
\* thread either binds or fails; requests from outside need not come
FairSpec ==
  /\ Spec
  /\ WF_vars(ServerStart \/ ServerBindFail)
  /\ WF_vars(Handlers)
  /\ WF_vars(Notify)

\* the upstream client reads only the credential and writes nothing
NextGemini ==
  \/ ServerStart
  \/ \E c \in ContentsInputs, up \in Upstreams : GenerateGeminiContent(c, up)
  \/ \E rq \in ContentsRequests, up \in Upstreams : GeminiEndpoint(rq, up)
  \/ GetConfig

SpecGemini == InitProgram /\ [][NextGemini]_vars

\* move_player under every spelling, with its notifications
NextMove ==
  \/ ServerStart
  \/ \E d \in MoveSpellings : MovePlayerTool(d)
  \/ \E d \in MoveSpellings : MovePlayerEndpoint([destination |-> d])
  \/ Notify

SpecMove == InitConfigured /\ [][NextMove]_vars

\* the scanner reads no state; the cache changes around it
NextScan ==
  \/ ServerStart
  \/ \E p \in StatusPayloads : UpdateStatus([player_status |-> p])
  \/ \E sf \in {"tool", "http"} : GetDestinations(sf)

\* the scanner applied to map_layout and to every grid of Grids
InitScan == Init /\ api_key = [set |-> TRUE, val |-> "k"]

SpecScan == InitScan /\ [][NextScan]_vars

\* ---------------------------------------------------------------- properties
Range(q) == { q[i] : i \in 1..Len(q) }

ValidName(d) == DictHas(destinations, Lower(d))

\* C1: every status query, from the tool or from GET /api/player/status,
\* eventually returns: a caller waiting in get_player_status is eventually
\* no longer waiting.
C1_StatusQueryReturns ==
  \A o \in {"tool", "http"} : (query[o] = "waiting") ~> (query[o] = "idle")

\* C2: a script is returned by at most one poll, and a poll that follows
\* another poll with no enqueue in between returns an empty list.
C2_PolledAtMostOnce ==
  /\ \A i \in Ids : delivered[i] <= 1
  /\ (response.op = "js-commands" /\ response.enqueued = 0)
       => response.body.commands = <<>>

\* a script of POST /api/execute-js was returned by one poll and the poll
\* right after it, with nothing enqueued in between, has just answered
C2_Witness ==
  /\ response.op = "js-commands"
  /\ response.enqueued = 0
  /\ \E i \in Ids : outcome[i] = [kind |-> "raw", fate |-> "polled"] /\ delivered[i] = 1

\* C3: a poll drops an entry if and only if the entry is older than 30
\* seconds at the time of the poll: every dropped entry is older than 30
\* seconds and every returned entry is not.
C3_DroppedIffOlderThan30 ==
  response.op = "js-commands" =>
    /\ \A e \in Range(response.evicted) : response.at - e.timestamp > MaxAge
    /\ \A c \in Range(response.body.commands) : ~(response.at - c.timestamp > MaxAge)

\* C4: the cache is the payload of the most recent update-status that carried
\* one (the defaults before the first), and current-status returns exactly it.
C4_CacheIsLastUpdate ==
  /\ last_player_status = lastUpdate
  /\ response.op = "current-status" => response.body = [player_status |-> lastUpdate]

\* current-status has answered with a partial payload, not merged with the
\* record it replaced
C4_Witness ==
  /\ response.op = "current-status"
  /\ response.body.player_status = [stamina |-> 55]

\* C5: move_player for a valid destination returns success with the
\* destination's coordinates, and pensamento returns success, whatever
\* becomes of the notification.
C5_SuccessWhateverTheNotification ==
  /\ (response.op = "move_player" /\ response.code = 200 /\ ValidName(response.arg))
       => /\ response.body.success = TRUE
          /\ response.body.new_position = DictGet(destinations, Lower(response.arg))
  /\ (response.op = "pensamento" /\ response.code = 200)
       => response.body.success = TRUE

\* move_player has answered for a valid destination and the notification of
\* that call has failed
C5_Witness ==
  /\ response.op = "move_player"
  /\ response.code = 200
  /\ ValidName(response.arg)
  /\ response.note \in Ids
  /\ outcome[response.note].fate = "failed"

MoveCall(d) == MovePlayerTool(d) \/ MovePlayerEndpoint([destination |-> d])

\* C6: a move_player call with a name whose lower-cased form is no key of the
\* scanner's result returns success=false with a message that lists every
\* key, creates no notification and leaves the cache and both queues alone.
C6_UnknownDestination ==
  [][ ( /\ response'.op = "move_player"
        /\ response'.code = 200
        /\ ~ValidName(response'.arg)
        /\ MoveCall(response'.arg) )
      => /\ response'.body.success = FALSE
         /\ response'.body.message.keys = DictKeys(destinations)
         /\ response'.note = 0
         /\ UNCHANGED << pending, last_player_status, js_command_queue, js_commands >>
    ]_vars

\* move_player has answered for "hospital"
C6_Witness ==
  /\ response.op = "move_player"
  /\ response.code = 200
  /\ response.arg = <<"h","o","s","p","i","t","a","l">>
  /\ response.body.success = FALSE

\* C7: without a credential generate_gemini_content returns the
\* configuration error for every input and does not reach the upstream call.
C7_NoCredential ==
  (response.op = "generate_gemini_content" /\ NoCredential(api_key))
    => /\ response.body =
            ErrorPayload("GEMINI_API_KEY nao configurada no arquivo .env", 500)
       /\ ~response.called

\* the call was made with malformed JSON and no credential
C7_Witness ==
  /\ response.op = "generate_gemini_content"
  /\ NoCredential(api_key)
  /\ response.arg = "malformed"

AnsweredNonSuccess ==
  /\ response.op = "generate_gemini_content"
  /\ response.called
  /\ response.upstream.kind = "http"
  /\ ~ResponseOk(response.upstream.status)

EchoesUpstream ==
  response.body.error = [text |-> "Erro na API Gemini",
                         status |-> response.upstream.status,
                         body |-> response.upstream.body]

\* C8 as stated: a non-success upstream answer gives an error payload whose
\* status_code is in the 500 class and whose message echoes status and body.
C8_NonSuccessIs500Class ==
  AnsweredNonSuccess
    => /\ response.body.status_code >= 500 /\ response.body.status_code <= 599
       /\ EchoesUpstream

\* C8 amended: a non-success upstream answer gives an error payload whose
\* status_code is the upstream status itself and whose message echoes status
\* and body.
C8_NonSuccessKeepsStatus ==
  AnsweredNonSuccess
    => /\ response.body.status_code = response.upstream.status
       /\ EchoesUpstream

\* the upstream answered 404
C8_Witness ==
  /\ AnsweredNonSuccess
  /\ response.upstream.status = 404
  /\ response.body.status_code = 404

FetchFailed == response.op = "get_player_status" /\ response.fetch # "200"

\* C9 as stated: after a non-200 answer or an exception (timeout, connection
\* error) the status query returns the cached snapshot together with the error.
C9_FallbackCarriesError ==
  FetchFailed
    => /\ response.body.player_status = response.cache
       /\ "error" \in DOMAIN response.body

\* C9 amended: after an exception (timeout, connection error) the status
\* query returns the cached snapshot together with the error; after a non-200
\* answer it returns the cached snapshot alone.
C9_FallbackByBranch ==
  FetchFailed
    => /\ response.body.player_status = response.cache
       /\ response.fetch = "non200" => DOMAIN response.body = {"player_status"}
       /\ response.fetch # "non200" =>
            /\ DOMAIN response.body = {"player_status", "error"}
            /\ response.body.error = response.fetch

\* the fetch raised a connection error and the fallback was returned
C9_Witness ==
  /\ FetchFailed
  /\ response.fetch = "ConnectionError"
  /\ response.body = [player_status |-> DefaultStatus, error |-> "ConnectionError"]

\* C10: every script queued by an enqueueing request, in either queue, is in
\* the result of the next poll if it is less than 30 seconds old then.
C10_QueuedScriptIsPolled ==
  response.op = "js-commands" =>
    \A e \in Range(response.evicted) \cup Range(response.body.commands)
             \cup Range(response.parked) :
      response.at - e.timestamp < MaxAge
        => e.id \in SeqIds(response.body.commands)

\* a POST handler was called with a body that lacks its required field
MissingFieldCall ==
  \/ MovePlayerEndpoint(NoFields)
  \/ PensamentoEndpoint(NoFields)
  \/ UpdateStatus(NoFields)
  \/ ExecuteJs(NoFields)
  \/ \E up \in Upstreams : GeminiEndpoint(NoFields, up)

\* C11: every POST endpoint called without its required field answers 400
\* and leaves the status cache and both command queues unchanged.
C11_MissingFieldIs400 ==
  [][ MissingFieldCall
        => /\ response'.code = 400
           /\ UNCHANGED << last_player_status, js_command_queue, js_commands >>
    ]_vars

\* ------------------------------------------------------ map scanner claims
MarkerNames ==
  { [tile |-> "h", name |-> casa], [tile |-> "W", name |-> trabalho],
    [tile |-> "M", name |-> mercado], [tile |-> "B", name |-> banco],
    [tile |-> "C", name |-> loja_carros] }

\* the 0-based positions of a tile in a grid g
Occurrences(g, tile) ==
  { p \in [x : 0..(Len(g[1]) - 1), y : 0..(Len(g) - 1)] :
      g[p.y + 1][p.x + 1] = tile }

RowMajorBefore(p, q) == p.y < q.y \/ (p.y = q.y /\ p.x < q.x)

FirstOccurrence(g, tile) ==
  CHOOSE p \in Occurrences(g, tile) :
    \A q \in Occurrences(g, tile) \ {p} : RowMajorBefore(p, q)

LastOccurrence(g, tile) ==
  CHOOSE p \in Occurrences(g, tile) :
    \A q \in Occurrences(g, tile) \ {p} : RowMajorBefore(q, p)

Scanned == response.op = "get_destinations"

\* C12 as stated: a marker that occurs more than once is reported at its
\* first occurrence in row-major order.
C12_FirstOccurrenceWins ==
  Scanned =>
    \A m \in MarkerNames :
      Cardinality(Occurrences(ScannedLayout, m.tile)) > 1
        => DictGet(response.body.destinations, m.name)
             = FirstOccurrence(ScannedLayout, m.tile)

\* C12 amended: a marker that occurs more than once is reported at its last
\* occurrence in row-major order.
C12_LastOccurrenceWins ==
  Scanned =>
    \A m \in MarkerNames :
      Cardinality(Occurrences(ScannedLayout, m.tile)) > 1
        => DictGet(response.body.destinations, m.name)
             = LastOccurrence(ScannedLayout, m.tile)

\* a grid with two h tiles in different rows was scanned
C12_Witness ==
  /\ Scanned
  /\ Cardinality(Occurrences(ScannedLayout, "h")) = 2
  /\ FirstOccurrence(ScannedLayout, "h").y < LastOccurrence(ScannedLayout, "h").y
  /\ DictGet(response.body.destinations, casa) = LastOccurrence(ScannedLayout, "h")

\* the entries of a dict, without their order
Entries(d) == { d[i] : i \in 1..Len(d) }

\* C13: every marker present in the grid has exactly one entry, under its
\* name, with x the column and y the row of the marker; absent markers and
\* other characters have none; the tool and the endpoint return the entries
\* of the game map whatever the rest of the state is.
C13_OneEntryPerMarker ==
  Scanned =>
    LET d == response.body.destinations
        g == ScannedLayout
    IN  /\ \A m \in MarkerNames :
             /\ DictHas(d, m.name) <=> Occurrences(g, m.tile) # {}
             /\ DictHas(d, m.name)
                  => /\ Cardinality({ i \in 1..Len(d) : d[i].key = m.name }) = 1
                     /\ DictGet(d, m.name) \in Occurrences(g, m.tile)
        /\ \A i \in 1..Len(d) : d[i].key \in { m.name : m \in MarkerNames }
        /\ grid = <<>>
             => Entries(d) = { [key |-> trabalho, value |-> [x |-> 9, y |-> 1]],
                               [key |-> banco, value |-> [x |-> 5, y |-> 3]],
                               [key |-> casa, value |-> [x |-> 9, y |-> 3]],
                               [key |-> mercado, value |-> [x |-> 13, y |-> 3]],
                               [key |-> loja_carros, value |-> [x |-> 17, y |-> 3]] }

\* get_destinations was called after the cache had changed and reports casa
\* at column 9 of row 3
C13_Witness ==
  /\ Scanned
  /\ response.surface = "tool"
  /\ last_player_status # DefaultStatus
  /\ grid = <<>>
  /\ DictHas(response.body.destinations, casa)
  /\ DictGet(response.body.destinations, casa) = [x |-> 9, y |-> 3]

\* ------------------------------------------------------ move_player spelling
\* d spells the lower-case name n in some mix of upper and lower case
IsSpelling(d, n) ==
  /\ Len(d) = Len(n)
  /\ \A i \in 1..Len(n) : d[i] = n[i] \/ d[i] = UpperChar(n[i])

\* C14: for every valid destination name and every upper/lower-case spelling
\* of it, move_player returns the result and schedules the notification
\* script that it returns and schedules for the all-lowercase spelling.
C14_CaseInsensitive ==
  [][ \A n \in Range(DictKeys(destinations)) :
        ( /\ response'.op = "move_player"
          /\ response'.code = 200
          /\ IsSpelling(response'.arg, n)
          /\ MoveCall(response'.arg) )
        => /\ response'.body = move_player(n).result
           /\ \E loop \in {"mcp", "http"} :
                pending' = pending \cup { [id |-> issued + 1,
                                           script |-> move_player(n).notify[1],
                                           loop |-> loop] }
    ]_vars

\* move_player has answered for "CaSA" and for "BANCO"
C14_Witness ==
  /\ response.op = "move_player"
  /\ response.code = 200
  /\ response.arg \in { <<"C","a","S","A">>, <<"B","A","N","C","O">> }
  /\ response.body.success = TRUE
  /\ response.body.player_status.destination \in {casa, banco}

\* ------------------------------------------------- upstream outcome classes
\* generate_gemini_content has returned, called as a tool or by the endpoint
Generated ==
  /\ response.op \in {"generate_gemini_content", "gemini-generate"}
  /\ response.code = 200

\* C15: with a credential, input that is not valid JSON gives 400 without an
\* upstream call, a timeout gives 408, any other transport failure gives 500,
\* a successful answer without a first candidate's first text part gives
\* 500, and a well-formed successful answer gives that text part alone.
C15_OneClassPerOutcome ==
  (Generated /\ ~NoCredential(api_key)) =>
    LET up == response.upstream
        p  == response.body
    IN  IF response.arg = "malformed"
        THEN p.status_code = 400 /\ ~response.called
        ELSE /\ response.called
             /\ up.kind = "timeout" => p.status_code = 408
             /\ up.kind = "transport"
                  => p = ErrorPayload("Erro de conexao com a API Gemini", 500)
             /\ (up.kind = "http" /\ ResponseOk(up.status) /\ up.body # "good")
                  => p.status_code = 500
             /\ (up.kind = "http" /\ ResponseOk(up.status) /\ up.body = "good")
                  => p = [response |-> "first_text"]

\* ---------------------------------------------------- notification attempts
\* the number of entries of the polled queue q that carry script i
QueueCount(q, i) == Cardinality({ k \in 1..Len(q) : q[k].id = i })

\* the tasks of the set p that carry script i
TasksOf(p, i) == { n \in p : n.id = i }

\* C16: the script of a move_player or pensamento call has at most one task
\* and at most one entry in the polled queue; it has a task exactly until
\* its one attempt; once attempted it gets no new task and no new entry, and
\* a failed attempt stays failed and leaves no entry.
C16_AtMostOneAttempt ==
  [][ \A i \in Ids :
        outcome'[i].kind \in {"move", "thought"} =>
          /\ QueueCount(js_command_queue', i) <= 1
          /\ Cardinality(TasksOf(pending', i)) <= 1
          /\ (outcome'[i].fate = "pending") <=> (TasksOf(pending', i) # {})
          /\ outcome[i].fate \notin {"none", "pending"}
               => /\ outcome'[i].fate # "pending"
                  /\ QueueCount(js_command_queue', i) <= QueueCount(js_command_queue, i)
          /\ outcome[i].fate = "failed"
               => /\ outcome'[i].fate = "failed"
                  /\ QueueCount(js_command_queue', i) = 0
    ]_vars

\* one call's attempt has failed and a poll has come after it
C16_Witness ==
  /\ response.op = "js-commands"
  /\ \E i \in Ids : outcome[i].kind \in {"move", "thought"} /\ outcome[i].fate = "failed"

\* ------------------------------------------------------- drain and enqueues
\* C17: whatever the interleaving of handlers, a poll hands out every entry
\* of the polled queue, for the only time, or drops it because it is older
\* than 30 seconds, and no other step takes an entry out of the queue.
C17_DrainLosesNothing ==
  [][ IF response'.op = "js-commands" /\ js_command_queue' = <<>> /\ GetJsCommands
      THEN \A k \in 1..Len(js_command_queue) :
             LET cmd == js_command_queue[k] IN
               \/ /\ cmd \in Range(response'.body.commands)
                  /\ delivered'[cmd.id] = 1
               \/ /\ response'.at - cmd.timestamp > MaxAge
                  /\ delivered'[cmd.id] = delivered[cmd.id]
      ELSE \A k \in 1..Len(js_command_queue) :
             k <= Len(js_command_queue') /\ js_command_queue'[k] = js_command_queue[k]
    ]_vars

====
